---- MODULE Spec2Model ----
(***************************************************************************)
(* xwin: resolution of the CRT / Windows SDK payload list from a package   *)
(* manifest (src/src/lib.rs, prune_pkg_list) and the command pipeline of   *)
(* the binary (src/src/bin.rs, main).                                      *)
(*                                                                         *)
(* Rust strings are modelled as sequences of one-character strings, so     *)
(* that contains / starts_with / strip_prefix / replace and the byte-wise  *)
(* ordering of String are computed, not assumed.                           *)
(***************************************************************************)
EXTENDS Integers, Sequences, FiniteSets, TLC

(***************************************************************************)
(* String primitives of the Rust standard library used by the resolver.    *)
(***************************************************************************)

\* The characters of the strings handled here, in code-point (byte) order:
\* space - . 0-9 A-Z \ _ a-z
ASCII ==
  <<" ","-",".","0","1","2","3","4","5","6","7","8","9","A","B","C","D","E","F","G","H","I","J","K","L","M","N","O","P","Q","R","S","T","U","V","W","X","Y","Z","\\","_","a","b","c","d","e","f","g","h","i","j","k","l","m","n","o","p","q","r","s","t","u","v","w","x","y","z">>

\* Code point order of a character: its position in ASCII.
Code(c) == CHOOSE i \in 1..Len(ASCII) : ASCII[i] = c

\* str::starts_with
StartsWith(s, p) ==
  /\ Len(p) <= Len(s)
  /\ SubSeq(s, 1, Len(p)) = p

\* str::ends_with
EndsWith(s, p) ==
  /\ Len(p) <= Len(s)
  /\ SubSeq(s, Len(s) - Len(p) + 1, Len(s)) = p

\* str::contains
Contains(s, p) ==
  \E i \in 0..(Len(s) - Len(p)) : SubSeq(s, i + 1, i + Len(p)) = p

\* Option<&str>::None: a sequence that is no string of characters
NoneStr == <<"None">>

\* str::strip_prefix: NoneStr or the rest of the string
StripPrefix(s, p) ==
  IF StartsWith(s, p) THEN SubSeq(s, Len(p) + 1, Len(s)) ELSE NoneStr

\* str::strip_suffix: NoneStr or the string without the suffix
StripSuffix(s, p) ==
  IF EndsWith(s, p) THEN SubSeq(s, 1, Len(s) - Len(p)) ELSE NoneStr

\* str::replace: every non-overlapping match of a non-empty pattern, scanning
\* from the left
RECURSIVE Replace(_, _, _)
Replace(s, from, to) ==
  IF Len(s) < Len(from) THEN s
  ELSE IF SubSeq(s, 1, Len(from)) = from
       THEN to \o Replace(SubSeq(s, Len(from) + 1, Len(s)), from, to)
       ELSE <<s[1]>> \o Replace(Tail(s), from, to)

\* Ord for str: lexicographic by bytes, a proper prefix ordering first
RECURSIVE StrLess(_, _)
StrLess(a, b) ==
  IF b = <<>> THEN FALSE
  ELSE IF a = <<>> THEN TRUE
  ELSE IF a[1] = b[1] THEN StrLess(Tail(a), Tail(b))
  ELSE Code(a[1]) < Code(b[1])

\* Iterator::max / the last key of a BTreeMap: the greatest string of a
\* non-empty set
StrMax(S) == CHOOSE m \in S : \A o \in S : o = m \/ StrLess(o, m)

(***************************************************************************)
(* String literals of the source.                                          *)
(***************************************************************************)

\* "Microsoft.VisualStudio.Product.BuildTools"
BUILD_TOOLS_ID ==
  <<"M","i","c","r","o","s","o","f","t",".","V","i","s","u","a","l","S","t","u","d","i","o",".","P","r","o","d","u","c","t",".","B","u","i","l","d","T","o","o","l","s">>
\* "Microsoft.VisualStudio.Component.VC."
VC_COMPONENT_PREFIX ==
  <<"M","i","c","r","o","s","o","f","t",".","V","i","s","u","a","l","S","t","u","d","i","o",".","C","o","m","p","o","n","e","n","t",".","V","C",".">>
\* ".x86.x64"
VC_COMPONENT_SUFFIX ==
  <<".","x","8","6",".","x","6","4">>
\* "Microsoft.VC."
VC_ID_PREFIX ==
  <<"M","i","c","r","o","s","o","f","t",".","V","C",".">>
\* ".CRT.Headers.base"
CRT_HEADERS_SUFFIX ==
  <<".","C","R","T",".","H","e","a","d","e","r","s",".","b","a","s","e">>
\* ".CRT."
CRT_INFIX ==
  <<".","C","R","T",".">>
\* "."
DOT ==
  <<".">>
\* ".base"
BASE_SUFFIX ==
  <<".","b","a","s","e">>
\* ".spectre"
SPECTRE_SUFFIX ==
  <<".","s","p","e","c","t","r","e">>
\* "Headers"
TOK_Headers ==
  <<"H","e","a","d","e","r","s">>
\* "OneCore"
TOK_OneCore ==
  <<"O","n","e","C","o","r","e">>
\* "Desktop"
TOK_Desktop ==
  <<"D","e","s","k","t","o","p">>
\* "Store"
TOK_Store ==
  <<"S","t","o","r","e">>
\* "OneCore.Desktop"
TOK_OneCoreDesktop ==
  <<"O","n","e","C","o","r","e",".","D","e","s","k","t","o","p">>
\* "x64"
TOK_x64 ==
  <<"x","6","4">>
\* "arm64"
TOK_arm64 ==
  <<"a","r","m","6","4">>
\* "ARM64"
TOK_ARM64 ==
  <<"A","R","M","6","4">>
\* "arm"
TOK_arm ==
  <<"a","r","m">>
\* "x86"
TOK_x86 ==
  <<"x","8","6">>
\* "ARM"
TOK_ARM ==
  <<"A","R","M">>
\* "x86_64"
TOK_x86_64 ==
  <<"x","8","6","_","6","4">>
\* "aarch"
TOK_aarch ==
  <<"a","a","r","c","h">>
\* "aarch64"
TOK_aarch64 ==
  <<"a","a","r","c","h","6","4">>
\* "Win10SDK_10."
SDK_ID_PREFIX ==
  <<"W","i","n","1","0","S","D","K","_","1","0",".">>
\* "Windows SDK Desktop Headers x86-x86_en-us.msi"
SDK_HEADERS_X86 ==
  <<"W","i","n","d","o","w","s"," ","S","D","K"," ","D","e","s","k","t","o","p"," ","H","e","a","d","e","r","s"," ","x","8","6","-","x","8","6","_","e","n","-","u","s",".","m","s","i">>
\* "Windows SDK for Windows Store Apps Headers-x86_en-us.msi"
SDK_STORE_HEADERS ==
  <<"W","i","n","d","o","w","s"," ","S","D","K"," ","f","o","r"," ","W","i","n","d","o","w","s"," ","S","t","o","r","e"," ","A","p","p","s"," ","H","e","a","d","e","r","s","-","x","8","6","_","e","n","-","u","s",".","m","s","i">>
\* "Installers\Windows SDK Desktop Headers "
SDK_HEADERS_PREFIX ==
  <<"I","n","s","t","a","l","l","e","r","s","\\","W","i","n","d","o","w","s"," ","S","D","K"," ","D","e","s","k","t","o","p"," ","H","e","a","d","e","r","s"," ">>
\* "-x86_en-us.msi"
SDK_MSI_SUFFIX ==
  <<"-","x","8","6","_","e","n","-","u","s",".","m","s","i">>
\* "Installers\Windows SDK Desktop Libs "
SDK_LIBS_PREFIX ==
  <<"I","n","s","t","a","l","l","e","r","s","\\","W","i","n","d","o","w","s"," ","S","D","K"," ","D","e","s","k","t","o","p"," ","L","i","b","s"," ">>
\* "Windows SDK for Windows Store Apps Libs-x86_en-us.msi"
SDK_STORE_LIBS ==
  <<"W","i","n","d","o","w","s"," ","S","D","K"," ","f","o","r"," ","W","i","n","d","o","w","s"," ","S","t","o","r","e"," ","A","p","p","s"," ","L","i","b","s","-","x","8","6","_","e","n","-","u","s",".","m","s","i">>
\* "Microsoft.Windows.UniversalCRT.HeadersLibsSources.Msi"
UCRT_ID ==
  <<"M","i","c","r","o","s","o","f","t",".","W","i","n","d","o","w","s",".","U","n","i","v","e","r","s","a","l","C","R","T",".","H","e","a","d","e","r","s","L","i","b","s","S","o","u","r","c","e","s",".","M","s","i">>
\* "Universal CRT Headers Libraries and Sources-x86_en-us.msi"
UCRT_MSI ==
  <<"U","n","i","v","e","r","s","a","l"," ","C","R","T"," ","H","e","a","d","e","r","s"," ","L","i","b","r","a","r","i","e","s"," ","a","n","d"," ","S","o","u","r","c","e","s","-","x","8","6","_","e","n","-","u","s",".","m","s","i">>
\* "_headers.msi"
FN_HEADERS ==
  <<"_","h","e","a","d","e","r","s",".","m","s","i">>
\* "_store_headers.msi"
FN_STORE_HEADERS ==
  <<"_","s","t","o","r","e","_","h","e","a","d","e","r","s",".","m","s","i">>
\* "_"
FN_UNDERSCORE ==
  <<"_">>
\* "_libs_"
FN_LIBS ==
  <<"_","l","i","b","s","_">>
\* ".msi"
FN_MSI ==
  <<".","m","s","i">>
\* "_store_libs.msi"
FN_STORE_LIBS ==
  <<"_","s","t","o","r","e","_","l","i","b","s",".","m","s","i">>
\* "ucrt.msi"
FN_UCRT ==
  <<"u","c","r","t",".","m","s","i">>

(***************************************************************************)
(* Arch and Variant (bit flags) and their iterators.                       *)
(***************************************************************************)

\* `flag as u32 & val != 0` for a one-bit flag
HasBit(val, bit) == (val \div bit) % 2 = 1

\* an `|` that was left out: the mask as it was
WithBitDropped(val, bit) == val

\* `val | flag as u32` for a one-bit flag
WithBit(val, bit) == IF HasBit(val, bit) THEN val ELSE val + bit

\* enum Arch, in declaration order
Arches == <<"X86", "X86_64", "Aarch", "Aarch64">>

\* the discriminant of an Arch
ArchBit(a) ==
  CASE a = "X86" -> 1
    [] a = "X86_64" -> 2
    [] a = "Aarch" -> 4
    [] a = "Aarch64" -> 8

\* Arch::as_str
ArchAsStr(a) ==
  CASE a = "X86" -> TOK_x86
    [] a = "X86_64" -> TOK_x86_64
    [] a = "Aarch" -> TOK_aarch
    [] a = "Aarch64" -> TOK_aarch64

\* Arch::as_ms_str
ArchAsMsStr(a) ==
  CASE a = "X86" -> TOK_x86
    [] a = "X86_64" -> TOK_x64
    [] a = "Aarch" -> TOK_arm
    [] a = "Aarch64" -> TOK_arm64

\* Arch::iter: the arches of a mask, in declaration order
ArchIter(val) == SelectSeq(Arches, LAMBDA a : HasBit(val, ArchBit(a)))

\* the discriminant of a Variant
VariantBit(v) ==
  CASE v = "Desktop" -> 1
    [] v = "OneCore" -> 2
    [] v = "Store" -> 4
    [] v = "Spectre" -> 8

\* the id token Variant::iter yields for a variant
VariantIdToken(v) ==
  CASE v = "Desktop" -> TOK_Desktop
    [] v = "OneCore" -> TOK_OneCoreDesktop
    [] v = "Store" -> TOK_Store

\* Variant::iter: the id tokens of the Desktop, OneCore and Store bits of a
\* mask, in that order (the Spectre bit yields nothing)
VariantIter(val) ==
  LET sel == SelectSeq(<<"Desktop", "OneCore", "Store">>,
                       LAMBDA v : HasBit(val, VariantBit(v)))
  IN  [i \in 1..Len(sel) |-> VariantIdToken(sel[i])]

(***************************************************************************)
(* get_crt                                                                 *)
(***************************************************************************)

\* find_map over an ordered table of (token, value): the value of the first
\* token the name contains, or "None"
RECURSIVE FindMap(_, _)
FindMap(table, name) ==
  IF table = <<>> THEN "None"
  ELSE IF Contains(name, table[1][1]) THEN table[1][2]
  ELSE FindMap(Tail(table), name)

\* the variant table of to_payload
VariantTable ==
  << <<TOK_OneCore, "OneCore">>,
     <<TOK_Desktop, "Desktop">>,
     <<TOK_Store, "Store">> >>

\* the target arch table of to_payload
ArchTable ==
  << <<TOK_x64, "X86_64">>,
     <<TOK_arm64, "Aarch64">>,
     <<TOK_ARM64, "Aarch64">>,
     <<TOK_arm, "Aarch">>,
     <<TOK_x86, "X86">> >>

\* to_payload: kind from the item id; variant and target arch from the
\* payload file name; the file name with ARM lowered for aarch64
to_payload(mi, payload) ==
  LET kind == IF Contains(mi.id, TOK_Headers) THEN "CrtHeaders" ELSE "CrtLibs"
      variant == FindMap(VariantTable, payload.file_name)
      target_arch == FindMap(ArchTable, payload.file_name)
  IN  [ filename |-> IF target_arch = "Aarch64"
                     THEN Replace(payload.file_name, TOK_ARM, TOK_arm)
                     ELSE payload.file_name,
        url |-> payload.url,
        kind |-> kind,
        target_arch |-> target_arch,
        variant |-> variant ]

\* the version tokens of the dependency keys that match the VC component
\* pattern, keyed by their key
VersionOfKey(key) ==
  LET s == StripPrefix(key, VC_COMPONENT_PREFIX)
  IN  IF s = NoneStr THEN NoneStr ELSE StripSuffix(s, VC_COMPONENT_SUFFIX)

\* crt_version: the token of the last matching key, in the key order of the
\* dependency map; NoneStr when no key matches
CrtVersion(build_tools) ==
  LET matching == {k \in build_tools.dependencies : VersionOfKey(k) # NoneStr}
  IN  IF matching = {} THEN NoneStr ELSE VersionOfKey(StrMax(matching))

\* header_key
HeaderKey(crt_version) == VC_ID_PREFIX \o crt_version \o CRT_HEADERS_SUFFIX

\* crt_lib_id for one (arch, variant token)
CrtLibId(crt_version, arch, variant, spectre) ==
  VC_ID_PREFIX \o crt_version \o CRT_INFIX
    \o (IF arch = "Aarch64" THEN TOK_ARM64 ELSE ArchAsMsStr(arch))
    \o DOT \o variant
    \o (IF spectre /\ variant # TOK_Store THEN SPECTRE_SUFFIX ELSE <<>>)
    \o BASE_SUFFIX

\* the lookups with the two loops swapped: variant-major, arch-minor
CrtLibLookupsVariantMajor(crt_version, arches, variants) ==
  LET spectre == HasBit(variants, VariantBit("Spectre"))
      vs == VariantIter(WithBit(variants, VariantBit("Store")))
      ars == ArchIter(arches)
  IN  [ i \in 1..(Len(ars) * Len(vs)) |->
          CrtLibId(crt_version, ars[((i - 1) % Len(ars)) + 1],
                   vs[((i - 1) \div Len(ars)) + 1], spectre) ]

\* the lookups with the spectre suffix on the Store id as well
CrtLibLookupsSpectreOnStore(crt_version, arches, variants) ==
  LET spectre == HasBit(variants, VariantBit("Spectre"))
      vs == VariantIter(WithBit(variants, VariantBit("Store")))
      ars == ArchIter(arches)
  IN  [ i \in 1..(Len(ars) * Len(vs)) |->
          CrtLibId(crt_version, ars[((i - 1) \div Len(vs)) + 1],
                   IF spectre
                   THEN vs[((i - 1) % Len(vs)) + 1] \o SPECTRE_SUFFIX
                   ELSE vs[((i - 1) % Len(vs)) + 1],
                   FALSE) ]

\* the ids the nested loops of get_crt look up, in loop order
CrtLibLookups(crt_version, arches, variants) ==
  LET spectre == HasBit(variants, VariantBit("Spectre"))
      vs == VariantIter(WithBit(variants, VariantBit("Store")))
      ars == ArchIter(arches)
  IN  [ i \in 1..(Len(ars) * Len(vs)) |->
          CrtLibId(crt_version, ars[((i - 1) \div Len(vs)) + 1],
                   vs[((i - 1) % Len(vs)) + 1], spectre) ]

\* the loops with a missing id treated as fatal
CrtLibsLoopMissingFatal(pkgs, ids, pruned) ==
  IF \E i \in 1..Len(ids) : ids[i] \notin DOMAIN pkgs
        \/ pkgs[ids[i]].payloads = <<>>
  THEN [status |-> "panic", pruned |-> pruned]
  ELSE [status |-> "ok",
        pruned |-> pruned \o
          [i \in 1..Len(ids) |-> to_payload(pkgs[ids[i]], pkgs[ids[i]].payloads[1])]]

\* the nested loops of get_crt over the looked-up ids: the first payload of
\* every id found is pushed, in loop order; a missing id is skipped with a
\* warning; indexing the empty payload list of a found item panics
CrtLibsLoop(pkgs, ids, pruned) ==
  LET found == SelectSeq(ids, LAMBDA id : id \in DOMAIN pkgs)
  IN  IF \E i \in 1..Len(found) : pkgs[found[i]].payloads = <<>>
      THEN [status |-> "panic", pruned |-> pruned]
      ELSE [status |-> "ok",
            pruned |-> pruned \o
              [i \in 1..Len(found) |->
                 to_payload(pkgs[found[i]], pkgs[found[i]].payloads[1])]]

\* get_crt: [status, err, pruned]
get_crt(pkgs, arches, variants, pruned) ==
  IF BUILD_TOOLS_ID \notin DOMAIN pkgs
  THEN [status |-> "err", err |-> "unable to find root BuildTools item", pruned |-> pruned]
  ELSE
  LET crt_version == CrtVersion(pkgs[BUILD_TOOLS_ID]) IN
  IF crt_version = NoneStr
  THEN [status |-> "err", err |-> "unable to find latest CRT version", pruned |-> pruned]
  ELSE
  LET header_key == HeaderKey(crt_version) IN
  IF header_key \notin DOMAIN pkgs
  THEN [status |-> "err", err |-> "unable to find CRT headers item", pruned |-> pruned]
  ELSE IF pkgs[header_key].payloads = <<>>
  THEN [status |-> "panic", err |-> "index out of bounds", pruned |-> pruned]
  ELSE
  LET withHeaders == Append(pruned, to_payload(pkgs[header_key], pkgs[header_key].payloads[1]))
      libs == CrtLibsLoop(pkgs, CrtLibLookups(crt_version, arches, variants), withHeaders)
  IN  IF libs.status = "panic"
      THEN [status |-> "panic", err |-> "index out of bounds", pruned |-> libs.pruned]
      ELSE [status |-> "ok", err |-> "", pruned |-> libs.pruned]

(***************************************************************************)
(* get_sdk                                                                 *)
(***************************************************************************)

\* Iterator::find over a payload list: the index of the first payload whose
\* file name satisfies P, 0 when there is none
Find(payloads, P(_)) ==
  LET hits == {i \in 1..Len(payloads) : P(payloads[i].file_name)}
  IN  IF hits = {} THEN 0 ELSE CHOOSE i \in hits : \A j \in hits : i <= j

\* the file name is `prefix <arch.as_ms_str()> -x86_en-us.msi`
IsArchInstaller(file_name, prefix, arch) ==
  LET s == StripPrefix(file_name, prefix)
      t == IF s = NoneStr THEN NoneStr ELSE StripSuffix(s, SDK_MSI_SUFFIX)
  IN  t # NoneStr /\ t = ArchAsMsStr(arch)

\* a payload the SDK part pushes: no variant, no install size
SdkPayload(filename, src, kind, target_arch) ==
  [ filename |-> filename,
    url |-> src.url,
    kind |-> kind,
    target_arch |-> target_arch,
    variant |-> "None" ]

\* the latest SDK item: the greatest of the items whose id starts with
\* Win10SDK_10. (items are ordered by id); NoneStr when there is none
LatestSdkId(pkgs) ==
  LET ids == {k \in DOMAIN pkgs : StartsWith(pkgs[k].id, SDK_ID_PREFIX)}
  IN  IF ids = {} THEN NoneStr ELSE StrMax(ids)

\* the loop over the selected arches other than x86 that pushes each arch's
\* desktop headers; the first arch without them ends get_sdk with an error
SdkArchHeaders(sdk, arches, pruned) ==
  LET others == SelectSeq(arches, LAMBDA a : a # "X86")
      at == [i \in 1..Len(others) |->
               Find(sdk.payloads,
                    LAMBDA f : IsArchInstaller(f, SDK_HEADERS_PREFIX, others[i]))]
  IN  IF \E i \in 1..Len(others) : at[i] = 0
      THEN [status |-> "err", err |-> "unable to find arch headers", pruned |-> pruned]
      ELSE [status |-> "ok", err |-> "",
            pruned |-> pruned \o
              [i \in 1..Len(others) |->
                 SdkPayload(sdk.id \o FN_UNDERSCORE \o ArchAsMsStr(others[i]) \o FN_HEADERS,
                            sdk.payloads[at[i]], "SdkHeaders", others[i])]]

\* the loop over the selected arches that pushes each arch's desktop libs;
\* the first arch without them ends get_sdk with an error
SdkArchLibs(sdk, arches, pruned) ==
  LET at == [i \in 1..Len(arches) |->
               Find(sdk.payloads,
                    LAMBDA f : IsArchInstaller(f, SDK_LIBS_PREFIX, arches[i]))]
  IN  IF \E i \in 1..Len(arches) : at[i] = 0
      THEN [status |-> "err", err |-> "unable to find SDK libs", pruned |-> pruned]
      ELSE [status |-> "ok", err |-> "",
            pruned |-> pruned \o
              [i \in 1..Len(arches) |->
                 SdkPayload(sdk.id \o FN_LIBS \o ArchAsStr(arches[i]) \o FN_MSI,
                            sdk.payloads[at[i]], "SdkLibs", arches[i])]]

\* the Universal CRT block of get_sdk
SdkUcrt(pkgs, pruned) ==
  IF UCRT_ID \notin DOMAIN pkgs
  THEN [status |-> "err", err |-> "unable to find Universal CRT", pruned |-> pruned]
  ELSE
  LET i == Find(pkgs[UCRT_ID].payloads, LAMBDA f : f = UCRT_MSI)
  IN  IF i = 0
      THEN [status |-> "err", err |-> "unable to find Universal CRT MSI", pruned |-> pruned]
      ELSE [status |-> "ok", err |-> "",
            pruned |-> Append(pruned,
              SdkPayload(FN_UCRT, pkgs[UCRT_ID].payloads[i], "Ucrt", "None"))]

\* get_sdk: [status, err, pruned]
get_sdk(pkgs, arches, pruned) ==
  LET sdkId == LatestSdkId(pkgs) IN
  IF sdkId = NoneStr
  THEN [status |-> "err", err |-> "unable to find latest Win10SDK version", pruned |-> pruned]
  ELSE
  LET sdk == pkgs[sdkId]
      h == Find(sdk.payloads, LAMBDA f : EndsWith(f, SDK_HEADERS_X86))
  IN
  IF h = 0
  THEN [status |-> "err", err |-> "unable to find headers", pruned |-> pruned]
  ELSE
  LET p1 == Append(pruned,
              SdkPayload(sdk.id \o FN_HEADERS, sdk.payloads[h], "SdkHeaders", "None"))
      s == Find(sdk.payloads, LAMBDA f : EndsWith(f, SDK_STORE_HEADERS))
  IN
  IF s = 0
  THEN [status |-> "err", err |-> "unable to find store headers", pruned |-> p1]
  ELSE
  LET p2 == Append(p1,
              SdkPayload(sdk.id \o FN_STORE_HEADERS, sdk.payloads[s], "SdkHeaders", "None"))
      hdrs == SdkArchHeaders(sdk, ArchIter(arches), p2)
  IN
  IF hdrs.status # "ok" THEN hdrs
  ELSE
  LET libs == SdkArchLibs(sdk, ArchIter(arches), hdrs.pruned) IN
  IF libs.status # "ok" THEN libs
  ELSE
  LET l == Find(sdk.payloads, LAMBDA f : EndsWith(f, SDK_STORE_LIBS)) IN
  IF l = 0
  THEN [status |-> "err", err |-> "unable to find store libs", pruned |-> libs.pruned]
  ELSE SdkUcrt(pkgs,
         Append(libs.pruned,
           SdkPayload(sdk.id \o FN_STORE_LIBS, sdk.payloads[l], "SdkStoreLibs", "None")))

(***************************************************************************)
(* prune_pkg_list                                                          *)
(***************************************************************************)

\* prune_pkg_list: Ok(pruned), Err(context) with the list dropped, or a panic
prune_pkg_list(pkgs, arches, variants) ==
  LET crt == get_crt(pkgs, arches, variants, <<>>) IN
  IF crt.status # "ok"
  THEN [status |-> crt.status, err |-> crt.err, pruned |-> <<>>]
  ELSE
  LET sdk == get_sdk(pkgs, arches, crt.pruned) IN
  IF sdk.status # "ok"
  THEN [status |-> sdk.status, err |-> sdk.err, pruned |-> <<>>]
  ELSE [status |-> "ok", err |-> "", pruned |-> sdk.pruned]

(***************************************************************************)
(* Manifests: the packages map handed to prune_pkg_list.  The manifest is  *)
(* external data; the ones explored are the complete manifest of one CRT   *)
(* version and one SDK, changed by a bounded set of deviations.            *)
(***************************************************************************)

\* "14.2"
VER_A == <<"1","4",".","2">>
\* "14.2.1"
VER_B == <<"1","4",".","2",".","1">>
\* ".vsix"
VSIX == <<".","v","s","i","x">>
\* "Win10SDK_10.0.1"
SDK_OLD == SDK_ID_PREFIX \o <<"0",".","1">>
\* "Win10SDK_10.0.2"
SDK_NEW == SDK_ID_PREFIX \o <<"0",".","2">>
\* "Installers\"
INSTALLERS == <<"I","n","s","t","a","l","l","e","r","s","\\">>
\* "CoreBuildTools"
CORE_BUILD_TOOLS == <<"C","o","r","e","B","u","i","l","d","T","o","o","l","s">>

\* a dependency key of the build tools item for a CRT version
VcKey(ver) == VC_COMPONENT_PREFIX \o ver \o VC_COMPONENT_SUFFIX

\* one manifest item
Item(id, deps, payloads) == [id |-> id, dependencies |-> deps, payloads |-> payloads]

\* one manifest payload; the url stands for the payload's identity (url,
\* sha256 and size travel together from the manifest into the Payload)
MPayload(file_name, url) == [file_name |-> file_name, url |-> url]

\* the map with one item, under the item's id
One(item) == [k \in {item.id} |-> item]

\* the SDK item of an id; `without` names the payloads it lacks
SdkItem(id, tag, without) ==
  Item(id, {},
    SelectSeq(
      << MPayload(INSTALLERS \o SDK_HEADERS_X86, <<tag, "headers", "x86">>),
         MPayload(INSTALLERS \o SDK_STORE_HEADERS, <<tag, "store-headers", "">>),
         MPayload(SDK_HEADERS_PREFIX \o TOK_x64 \o SDK_MSI_SUFFIX, <<tag, "headers", "x64">>),
         MPayload(SDK_HEADERS_PREFIX \o TOK_arm \o SDK_MSI_SUFFIX, <<tag, "headers", "arm">>),
         MPayload(SDK_HEADERS_PREFIX \o TOK_arm64 \o SDK_MSI_SUFFIX, <<tag, "headers", "arm64">>),
         MPayload(SDK_LIBS_PREFIX \o TOK_x86 \o SDK_MSI_SUFFIX, <<tag, "libs", "x86">>),
         MPayload(SDK_LIBS_PREFIX \o TOK_x64 \o SDK_MSI_SUFFIX, <<tag, "libs", "x64">>),
         MPayload(SDK_LIBS_PREFIX \o TOK_arm \o SDK_MSI_SUFFIX, <<tag, "libs", "arm">>),
         MPayload(SDK_LIBS_PREFIX \o TOK_arm64 \o SDK_MSI_SUFFIX, <<tag, "libs", "arm64">>),
         MPayload(INSTALLERS \o SDK_STORE_LIBS, <<tag, "store-libs", "">>) >>,
      LAMBDA p : <<p.url[2], p.url[3]>> \notin without))

\* the url of the payload of the CRT libs item of (arch, variant, spectre)
CrtLibUrl(arch, variant, spectre) == <<"crt-libs", arch, variant, spectre>>

\* the CRT libs item of (arch, variant, spectre) with one payload of the
\* given file name
CrtLibItem(ver, arch, variant, spectre, file_name) ==
  Item(CrtLibId(ver, arch, VariantIdToken(variant), spectre), {},
       << MPayload(file_name, CrtLibUrl(arch, variant, spectre)) >>)

\* the CRT libs item as shipped: its payload is `<id>.vsix`
ShippedCrtLibItem(ver, arch, variant, spectre) ==
  CrtLibItem(ver, arch, variant, spectre,
             CrtLibId(ver, arch, VariantIdToken(variant), spectre) \o VSIX)

\* the (arch, variant, spectre) combinations of the CRT libs items (Store
\* has no spectre form)
CrtLibCombos ==
  {c \in {"X86", "X86_64", "Aarch", "Aarch64"}
           \X {"Desktop", "OneCore", "Store"} \X BOOLEAN :
     ~(c[2] = "Store" /\ c[3])}

\* the complete manifest: build tools with one VC component key, the CRT
\* headers and every CRT libs item of VER_A, one SDK, the Universal CRT
FullManifest ==
  One(Item(BUILD_TOOLS_ID,
           {VcKey(VER_A), VC_COMPONENT_PREFIX \o CORE_BUILD_TOOLS}, <<>>))
  @@ One(Item(HeaderKey(VER_A), {},
              << MPayload(HeaderKey(VER_A) \o VSIX, <<"crt-headers">>) >>))
  @@ [id \in {CrtLibId(VER_A, c[1], VariantIdToken(c[2]), c[3]) : c \in CrtLibCombos} |->
        LET c == CHOOSE c \in CrtLibCombos :
                   CrtLibId(VER_A, c[1], VariantIdToken(c[2]), c[3]) = id
        IN  ShippedCrtLibItem(VER_A, c[1], c[2], c[3])]
  @@ One(SdkItem(SDK_NEW, "sdk-new", {}))
  @@ One(Item(UCRT_ID, {}, << MPayload(UCRT_MSI, <<"ucrt">>) >>))

\* the deviations a manifest may have from the complete one
Deviations ==
  { "no_build_tools",          \* no build tools item
    "no_vc_key",               \* build tools without a VC component key
    "second_vc_key",           \* build tools also depend on VER_B
    "no_crt_headers",          \* no CRT headers item
    "crt_headers_empty",       \* the CRT headers item has no payload
    "x64_store_missing",       \* no CRT libs item for (x64, Store)
    "arm_onecore_missing",     \* no CRT libs items for (arm, OneCore)
    "x86_desktop_empty",       \* the (x86, Desktop) libs item has no payload
    "x64_store_named_desktop", \* (x64, Store) ships the Desktop file name
    "arm64_desktop_host_x64",  \* (ARM64, Desktop) name: arm64 and a host x64
    "no_sdk",                  \* no Win10SDK item
    "older_sdk",               \* a second, older SDK item
    "sdk_no_arm64_libs" }      \* the latest SDK lacks the arm64 desktop libs

\* the ids a set of deviations removes from the complete manifest
Removed(m) ==
  (IF "no_build_tools" \in m THEN {BUILD_TOOLS_ID} ELSE {})
  \cup (IF "no_crt_headers" \in m THEN {HeaderKey(VER_A)} ELSE {})
  \cup (IF "x64_store_missing" \in m
        THEN {CrtLibId(VER_A, "X86_64", TOK_Store, FALSE)} ELSE {})
  \cup (IF "arm_onecore_missing" \in m
        THEN {CrtLibId(VER_A, "Aarch", TOK_OneCoreDesktop, FALSE),
              CrtLibId(VER_A, "Aarch", TOK_OneCoreDesktop, TRUE)} ELSE {})
  \cup (IF "no_sdk" \in m THEN {SDK_NEW} ELSE {})

\* the items a set of deviations changes or adds (a removed item is not
\* changed)
Changed(m) ==
  (IF {"no_vc_key", "second_vc_key"} \cap m # {} /\ "no_build_tools" \notin m
   THEN One(Item(BUILD_TOOLS_ID,
                 (IF "no_vc_key" \in m THEN {} ELSE {VcKey(VER_A)})
                 \cup (IF "second_vc_key" \in m THEN {VcKey(VER_B)} ELSE {})
                 \cup {VC_COMPONENT_PREFIX \o CORE_BUILD_TOOLS}, <<>>))
   ELSE <<>>)
  @@ (IF "crt_headers_empty" \in m /\ "no_crt_headers" \notin m
      THEN One(Item(HeaderKey(VER_A), {}, <<>>)) ELSE <<>>)
  @@ (IF "x86_desktop_empty" \in m
      THEN One(Item(CrtLibId(VER_A, "X86", TOK_Desktop, FALSE), {}, <<>>)) ELSE <<>>)
  @@ (IF "x64_store_named_desktop" \in m /\ "x64_store_missing" \notin m
      THEN One(CrtLibItem(VER_A, "X86_64", "Store", FALSE,
                 CrtLibId(VER_A, "X86_64", TOK_Desktop, FALSE) \o VSIX)) ELSE <<>>)
  @@ (IF "arm64_desktop_host_x64" \in m
      THEN One(CrtLibItem(VER_A, "Aarch64", "Desktop", FALSE,
                 VC_ID_PREFIX \o VER_A \o CRT_INFIX \o TOK_arm64 \o DOT
                   \o TOK_Desktop \o BASE_SUFFIX \o DOT \o TOK_x64 \o VSIX)) ELSE <<>>)
  @@ (IF "sdk_no_arm64_libs" \in m /\ "no_sdk" \notin m
      THEN One(SdkItem(SDK_NEW, "sdk-new", {<<"libs", "arm64">>})) ELSE <<>>)
  @@ (IF "older_sdk" \in m THEN One(SdkItem(SDK_OLD, "sdk-old", {})) ELSE <<>>)

\* the packages map of a manifest given by its deviations
Packages(m) ==
  Changed(m) @@ [id \in (DOMAIN FullManifest) \ Removed(m) |-> FullManifest[id]]

(***************************************************************************)
(* The run of the binary: main, from the call of prune_pkg_list on.        *)
(***************************************************************************)

\* the most deviations a manifest handed to prune_pkg_list has
MaxDeviations == 2

\* the most deviations the manifest of a run of the binary has
MaxCliDeviations == 1

\* the manifests with at most n deviations
Manifests(n) == {m \in SUBSET Deviations : Cardinality(m) <= n}

\* the arch masks: every non-empty set of --arch values
ArchMasks == 1..15

\* the variant masks: every non-empty set of --variant values (desktop,
\* onecore, spectre; "store" is not accepted)
VariantMasks == {v \in 1..15 : ~HasBit(v, VariantBit("Store"))}

\* the subcommands
Commands == {"List", "Download", "Unpack", "Pack"}

VARIABLES
  manifest,   \* the package manifest, as its deviations from FullManifest
  arches,     \* the arch mask, folded from --arch
  variants,   \* the variant mask, folded from --variant
  cmd,        \* the subcommand
  pc,         \* where main is: "prune", "dispatch", "unpack", "pack", "done"
  pruned,     \* the payload list prune_pkg_list returned
  exit,       \* "running", or how main ended: "ok", "err", "panic"
  error,      \* the error main ended with
  calls,      \* the stages invoked so far, each with the list it was given
  printed,    \* the rows print_packages wrote
  cached,     \* file names in the download cache
  unpacked,   \* file names unpacked under the unpack root
  output      \* file names materialized in the output tree

vars == <<manifest, arches, variants, cmd, pc, pruned, exit, error, calls,
          printed, cached, unpacked, output>>

inputs == <<manifest, arches, variants, cmd>>

effects == <<cached, unpacked, output>>

\* main has the manifest and the masks and is about to resolve
Start ==
  /\ pc = "prune"
  /\ pruned = <<>>
  /\ exit = "running"
  /\ error = ""
  /\ calls = <<>>
  /\ printed = <<>>
  /\ cached = {}
  /\ unpacked = {}
  /\ output = {}

\* a run of the binary
Init ==
  /\ manifest \in Manifests(MaxCliDeviations)
  /\ arches \in {2, 15}
  /\ variants \in {1, 11}
  /\ cmd \in Commands
  /\ Start

\* a call of prune_pkg_list on any manifest and masks
InitResolve ==
  /\ manifest \in Manifests(MaxDeviations)
  /\ arches \in ArchMasks
  /\ variants \in VariantMasks
  /\ cmd = "List"
  /\ Start

\* the file names of a payload list
FileNames(payloads) == {payloads[i].filename : i \in 1..Len(payloads)}

\* main ends
Finish(how, why) ==
  /\ pc' = "done"
  /\ exit' = how
  /\ error' = why

\* one entry of the log of stage invocations: the stage, the payload list it
\* was given (for resolve: the list it returned) and how it returned
Call(stage, payloads, result) ==
  [stage |-> stage, payloads |-> payloads, result |-> result]

\* let pruned = xwin::prune_pkg_list(&pkg_manifest, arches, variants)?
Resolve ==
  /\ pc = "prune"
  /\ LET r == prune_pkg_list(Packages(manifest), arches, variants)
     IN  /\ calls' = Append(calls, Call("resolve", r.pruned, r.status))
         /\ pruned' = r.pruned
         /\ IF r.status = "ok"
            THEN pc' = "dispatch" /\ UNCHANGED <<exit, error>>
            ELSE Finish(r.status, r.err)
  /\ UNCHANGED <<inputs, printed, effects>>

\* the row print_packages writes for a payload (sizes left out)
Row(p) ==
  [ name |-> p.filename,
    target |-> IF p.target_arch = "None" THEN <<>> ELSE ArchAsStr(p.target_arch),
    variant |-> IF p.variant = "None" THEN "" ELSE p.variant ]

\* a listing that fetches the payloads it lists
ListWithDownload ==
  /\ pc = "dispatch"
  /\ cmd = "List"
  /\ printed' = [i \in 1..Len(pruned) |-> Row(pruned[i])]
  /\ calls' = Append(calls, Call("download", pruned, "ok"))
  /\ cached' = cached \cup FileNames(pruned)
  /\ Finish("ok", "")
  /\ UNCHANGED <<inputs, pruned, unpacked, output>>

\* Command::List => print_packages(&pruned)
List ==
  /\ pc = "dispatch"
  /\ cmd = "List"
  /\ printed' = [i \in 1..Len(pruned) |-> Row(pruned[i])]
  /\ Finish("ok", "")
  /\ UNCHANGED <<inputs, pruned, calls, effects>>

\* a download whose error is dropped instead of returned
DownloadErrorIgnored ==
  /\ pc = "dispatch"
  /\ cmd \in {"Download", "Unpack", "Pack"}
  /\ \E ok \in BOOLEAN :
       /\ calls' = Append(calls, Call("download", pruned, IF ok THEN "ok" ELSE "err"))
       /\ cached' = IF ok THEN cached \cup FileNames(pruned) ELSE cached
  /\ IF cmd = "Download"
     THEN Finish("ok", "")
     ELSE pc' = "unpack" /\ UNCHANGED <<exit, error>>
  /\ UNCHANGED <<inputs, pruned, printed, unpacked, output>>

\* xwin::download(ctx, pkgs, pruned).await? of Download, Unpack and Pack:
\* fills the cache and returns Ok, or returns an error with none or some of
\* the payloads cached
Download ==
  /\ pc = "dispatch"
  /\ cmd \in {"Download", "Unpack", "Pack"}
  /\ \/ /\ calls' = Append(calls, Call("download", pruned, "ok"))
        /\ cached' = cached \cup FileNames(pruned)
        /\ IF cmd = "Download"
           THEN Finish("ok", "")
           ELSE pc' = "unpack" /\ UNCHANGED <<exit, error>>
     \/ /\ calls' = Append(calls, Call("download", pruned, "err"))
        /\ cached' \in {cached, cached \cup FileNames(Tail(pruned))}
        /\ Finish("err", "download")
  /\ UNCHANGED <<inputs, pruned, printed, unpacked, output>>

\* an unpack that does not wait for the download
UnpackWithoutDownload ==
  /\ pc \in {"dispatch", "unpack"}
  /\ cmd \in {"Unpack", "Pack"}
  /\ calls' = Append(calls, Call("unpack", pruned, "ok"))
  /\ unpacked' = unpacked \cup FileNames(pruned)
  /\ IF cmd = "Unpack"
     THEN Finish("ok", "")
     ELSE pc' = "pack" /\ UNCHANGED <<exit, error>>
  /\ UNCHANGED <<inputs, pruned, printed, cached, output>>

\* xwin::unpack(ctx, pruned).await? of Unpack and Pack
Unpack ==
  /\ pc = "unpack"
  /\ \/ /\ calls' = Append(calls, Call("unpack", pruned, "ok"))
        /\ unpacked' = unpacked \cup FileNames(pruned)
        /\ IF cmd = "Unpack"
           THEN Finish("ok", "")
           ELSE pc' = "pack" /\ UNCHANGED <<exit, error>>
     \/ /\ calls' = Append(calls, Call("unpack", pruned, "err"))
        /\ unpacked' \in {unpacked, unpacked \cup FileNames(Tail(pruned))}
        /\ Finish("err", "unpack")
  /\ UNCHANGED <<inputs, pruned, printed, cached, output>>

\* xwin::pack(ctx, config, pruned, arches, variants)? of Pack
Pack ==
  /\ pc = "pack"
  /\ \/ /\ calls' = Append(calls, Call("pack", pruned, "ok"))
        /\ output' = output \cup FileNames(pruned)
        /\ Finish("ok", "")
     \/ /\ calls' = Append(calls, Call("pack", pruned, "err"))
        /\ output' = output
        /\ Finish("err", "pack")
  /\ UNCHANGED <<inputs, pruned, printed, cached, unpacked>>

Next == Resolve \/ List \/ Download \/ Unpack \/ Pack

\* the runs of the binary
Spec == Init /\ [][Next]_vars

\* the calls of prune_pkg_list
SpecResolve == InitResolve /\ [][Resolve]_vars

(***************************************************************************)
(* Properties of prune_pkg_list, checked under SpecResolve.                *)
(***************************************************************************)

\* prune_pkg_list has returned Ok: main holds the list and goes on
ResolvedOk == pc = "dispatch"

\* the packages map of the run
Pkgs == Packages(manifest)

\* the manifest has no build tools item
LacksBuildTools == BUILD_TOOLS_ID \notin DOMAIN Pkgs

\* the build tools item has no key Microsoft.VisualStudio.Component.VC.<v>.x86.x64
LacksVcKey ==
  /\ BUILD_TOOLS_ID \in DOMAIN Pkgs
  /\ \A k \in Pkgs[BUILD_TOOLS_ID].dependencies :
       ~ /\ Len(k) >= Len(VC_COMPONENT_PREFIX) + Len(VC_COMPONENT_SUFFIX)
         /\ StartsWith(k, VC_COMPONENT_PREFIX)
         /\ EndsWith(k, VC_COMPONENT_SUFFIX)

\* no package id starts with Win10SDK_10.
LacksSdk == \A id \in DOMAIN Pkgs : ~StartsWith(id, SDK_ID_PREFIX)

\* C1: whenever the manifest lacks the build tools item, a VC component key
\* or an SDK item, prune_pkg_list returns an error and no payload list,
\* whatever the masks.
C1_MissingRootIsError ==
  (pc # "prune" /\ (LacksBuildTools \/ LacksVcKey \/ LacksSdk))
    => (exit = "err" /\ pruned = <<>>)

\* C2: no two payloads of a returned list have the same filename.
C2_UniqueFilenames ==
  ResolvedOk =>
    \A i, j \in 1..Len(pruned) : i # j => pruned[i].filename # pruned[j].filename

\* C3: every returned payload with a target arch has it in the arch mask, and
\* every returned payload with a variant other than the always-included Store
\* has it in the variant mask.
C3_PayloadsWithinMasks ==
  ResolvedOk =>
    \A i \in 1..Len(pruned) :
      /\ pruned[i].target_arch # "None"
           => HasBit(arches, ArchBit(pruned[i].target_arch))
      /\ pruned[i].variant \notin {"None", "Store"}
           => HasBit(variants, VariantBit(pruned[i].variant))

\* the place of a kind in the order of the list
KindRank(kind) ==
  CASE kind = "CrtHeaders" -> 1
    [] kind = "CrtLibs" -> 2
    [] kind = "SdkHeaders" -> 3
    [] kind = "SdkLibs" -> 4
    [] kind = "SdkStoreLibs" -> 5
    [] kind = "Ucrt" -> 6

\* the place of x in a sequence without repetitions
IndexIn(seq, x) == CHOOSE i \in 1..Len(seq) : seq[i] = x

\* the CRT libs item a payload comes from is looked up before the one another
\* payload comes from: arch-major, then Desktop, OneCore, Store
LookedUpBefore(p, q) ==
  LET pa == IndexIn(Arches, p.url[2])
      qa == IndexIn(Arches, q.url[2])
      pv == IndexIn(<<"Desktop", "OneCore", "Store">>, p.url[3])
      qv == IndexIn(<<"Desktop", "OneCore", "Store">>, q.url[3])
  IN  pa < qa \/ (pa = qa /\ pv < qv)

\* C4: the returned list is ordered by kind: the one CrtHeaders payload
\* first, then the CrtLibs payloads arch-major and variant-minor, then
\* SdkHeaders, SdkLibs, SdkStoreLibs, and the one Ucrt payload last.
C4_OrderedByKind ==
  ResolvedOk =>
    /\ Len(pruned) >= 2
    /\ \A i \in 1..Len(pruned) :
         /\ pruned[i].kind = "CrtHeaders" <=> i = 1
         /\ pruned[i].kind = "Ucrt" <=> i = Len(pruned)
    /\ \A i, j \in 1..Len(pruned) :
         i < j =>
           /\ KindRank(pruned[i].kind) <= KindRank(pruned[j].kind)
           /\ (pruned[i].kind = "CrtLibs" /\ pruned[j].kind = "CrtLibs")
                => LookedUpBefore(pruned[i], pruned[j])

\* a list with CrtLibs payloads of several arches and variants and with
\* SdkLibs payloads of several arches was returned
C4_Witness ==
  /\ ResolvedOk
  /\ arches = 15
  /\ variants = 3
  /\ Cardinality({i \in 1..Len(pruned) : pruned[i].kind = "CrtLibs"}) = 12
  /\ Cardinality({i \in 1..Len(pruned) : pruned[i].kind = "SdkLibs"}) = 4

\* a package is in the manifest and has a payload
Ships(id) == id \in DOMAIN Pkgs /\ Pkgs[id].payloads # <<>>

\* some payload of a package has the file name
HasFile(id, file_name) ==
  \E i \in 1..Len(Pkgs[id].payloads) : Pkgs[id].payloads[i].file_name = file_name

\* the manifest ships every item and payload that prune_pkg_list looks up for
\* arch mask {x86_64} and variant mask {desktop}
ShipsX64Desktop ==
  /\ BUILD_TOOLS_ID \in DOMAIN Pkgs
  /\ ~LacksVcKey
  /\ Ships(HeaderKey(CrtVersion(Pkgs[BUILD_TOOLS_ID])))
  /\ Ships(CrtLibId(CrtVersion(Pkgs[BUILD_TOOLS_ID]), "X86_64", TOK_Desktop, FALSE))
  /\ Ships(CrtLibId(CrtVersion(Pkgs[BUILD_TOOLS_ID]), "X86_64", TOK_Store, FALSE))
  /\ ~LacksSdk
  /\ LET sdk == LatestSdkId(Pkgs)
     IN  /\ HasFile(sdk, INSTALLERS \o SDK_HEADERS_X86)
         /\ HasFile(sdk, INSTALLERS \o SDK_STORE_HEADERS)
         /\ HasFile(sdk, SDK_HEADERS_PREFIX \o TOK_x64 \o SDK_MSI_SUFFIX)
         /\ HasFile(sdk, SDK_LIBS_PREFIX \o TOK_x64 \o SDK_MSI_SUFFIX)
         /\ HasFile(sdk, INSTALLERS \o SDK_STORE_LIBS)
  /\ UCRT_ID \in DOMAIN Pkgs
  /\ HasFile(UCRT_ID, UCRT_MSI)

\* kind, source and (for the SDK and UCRT payloads) target arch of a payload
Summary(p) ==
  <<p.kind, p.url, IF p.kind \in {"CrtHeaders", "CrtLibs"} THEN "-" ELSE p.target_arch>>

\* the SDK item the payloads come from: the newest one of the manifest
GoldenSdk == IF SDK_NEW \in DOMAIN Pkgs THEN "sdk-new" ELSE "sdk-old"

\* the golden list of arch mask {x86_64}, variant mask {desktop}
GoldenX64Desktop ==
  << <<"CrtHeaders", <<"crt-headers">>, "-">>,
     <<"CrtLibs", CrtLibUrl("X86_64", "Desktop", FALSE), "-">>,
     <<"CrtLibs", CrtLibUrl("X86_64", "Store", FALSE), "-">>,
     <<"SdkHeaders", <<GoldenSdk, "headers", "x86">>, "None">>,
     <<"SdkHeaders", <<GoldenSdk, "store-headers", "">>, "None">>,
     <<"SdkHeaders", <<GoldenSdk, "headers", "x64">>, "X86_64">>,
     <<"SdkLibs", <<GoldenSdk, "libs", "x64">>, "X86_64">>,
     <<"SdkStoreLibs", <<GoldenSdk, "store-libs", "">>, "None">>,
     <<"Ucrt", <<"ucrt">>, "None">> >>

\* C5: with arch mask {x86_64} and variant mask {desktop}, on a manifest that
\* ships every looked-up item, prune_pkg_list returns exactly the nine
\* payloads of the golden list: CrtHeaders, CrtLibs (x86_64, Desktop),
\* CrtLibs (x86_64, Store), three SdkHeaders (generic, store, x86_64), SdkLibs
\* x86_64, SdkStoreLibs, Ucrt.
C5_GoldenList ==
  (pc # "prune" /\ arches = 2 /\ variants = 1 /\ ShipsX64Desktop)
    => /\ ResolvedOk
       /\ [i \in 1..Len(pruned) |-> Summary(pruned[i])] = GoldenX64Desktop

\* the scenario of C5 was resolved, on a manifest that also holds an older SDK
C5_Witness ==
  /\ ResolvedOk
  /\ arches = 2
  /\ variants = 1
  /\ ShipsX64Desktop
  /\ "older_sdk" \in manifest
  /\ Len(pruned) = 9

\* C6: a payload whose file name contains "arm" and "arm64" is classified
\* Aarch64 by to_payload, whatever other arch tokens the name holds, and the
\* SDK headers and libs chosen for Aarch are never the arm64 installers.
C6_Arm64NeverMisclassified ==
  ResolvedOk =>
    \A i \in 1..Len(pruned) :
      /\ ( /\ pruned[i].kind \in {"CrtHeaders", "CrtLibs"}
           /\ Contains(pruned[i].filename, TOK_arm)
           /\ Contains(pruned[i].filename, TOK_arm64) )
           => pruned[i].target_arch = "Aarch64"
      /\ ( /\ pruned[i].kind \in {"SdkHeaders", "SdkLibs"}
           /\ pruned[i].target_arch = "Aarch" )
           => pruned[i].url[3] # "arm64"

\* the CRT libs ids looked up for the masks of the run that the manifest
\* does not hold
MissingLookups ==
  IF BUILD_TOOLS_ID \notin DOMAIN Pkgs \/ LacksVcKey THEN {}
  ELSE LET ids == CrtLibLookups(CrtVersion(Pkgs[BUILD_TOOLS_ID]), arches, variants)
       IN  {ids[i] : i \in 1..Len(ids)} \ DOMAIN Pkgs

\* the manifest of the run with the missing looked-up items shipped
WithMissingShipped ==
  [id \in MissingLookups \cap DOMAIN FullManifest |-> FullManifest[id]] @@ Pkgs

\* C7: a CRT libs id missing from the manifest never makes prune_pkg_list
\* fail: the call ends as it does on the manifest that ships the missing
\* items, and returns that manifest's list without the payloads of those
\* items (every other CRT payload, the SDK and the UCRT payloads are there).
C7_MissingLibsSkipped ==
  (pc # "prune" /\ MissingLookups # {}) =>
    LET full == prune_pkg_list(WithMissingShipped, arches, variants)
        fromMissing(p) ==
          \E id \in MissingLookups \cap DOMAIN FullManifest :
            p.url = FullManifest[id].payloads[1].url
    IN  /\ full.status = (IF ResolvedOk THEN "ok" ELSE exit)
        /\ pruned = SelectSeq(full.pruned, LAMBDA p : ~fromMissing(p))

\* a list was returned although two looked-up CRT libs ids are missing; it
\* holds the other CRT libs, the SDK and the UCRT payloads
C7_Witness ==
  /\ ResolvedOk
  /\ Cardinality(MissingLookups) = 2
  /\ \E i \in 1..Len(pruned) : pruned[i].kind = "CrtLibs"
  /\ pruned[Len(pruned)].kind = "Ucrt"

\* C8: prune_pkg_list ends with a payload list or a named error for every
\* manifest and masks; it never panics.
C8_NeverPanics == exit # "panic"

(***************************************************************************)
(* Properties of main, checked under Spec.                                 *)
(***************************************************************************)

\* the stages in the order of the pipeline
StageOrder == <<"resolve", "download", "unpack", "pack">>

\* C9: the stages are invoked in the order resolve, download, unpack, pack;
\* a stage is invoked only when the stage before it has returned Ok for the
\* whole list, and download, unpack and pack are given the list that resolve
\* returned; a command invokes no stage beyond its own.
C9_StagesInOrder ==
  /\ Len(calls) <= Len(StageOrder)
  /\ \A i \in 1..Len(calls) :
       /\ calls[i].stage = StageOrder[i]
       /\ i > 1 => /\ calls[i - 1].result = "ok"
                   /\ calls[i].payloads = calls[1].payloads
                   /\ calls[i].payloads = pruned
  /\ cmd = "List" => Len(calls) <= 1
  /\ cmd = "Download" => Len(calls) <= 2
  /\ cmd = "Unpack" => Len(calls) <= 3

\* a run of Pack went through the four stages
C9_Witness ==
  /\ cmd = "Pack"
  /\ pc = "done"
  /\ exit = "ok"
  /\ Len(calls) = 4
  /\ Len(pruned) > 9

\* C10: a stage that fails is the last stage invoked and the run ends with
\* its error; the output tree is written only by a run in which resolve,
\* download, unpack and pack all returned Ok, and then holds every payload
\* of the list.
C10_NoPartialOutput ==
  /\ \A i \in 1..Len(calls) :
       calls[i].result # "ok" =>
         /\ i = Len(calls)
         /\ pc = "done"
         /\ exit = calls[i].result
         /\ error # ""
  /\ (exit = "ok" /\ cmd = "Pack") => Len(calls) = 4
  /\ output # {} =>
       /\ Len(calls) = 4
       /\ \A i \in 1..4 : calls[i].result = "ok"
       /\ exit = "ok"
       /\ output = FileNames(pruned)

\* a run of Pack ended with the error of its download: nothing was unpacked
\* and no output was written
C10_Witness ==
  /\ cmd = "Pack"
  /\ pc = "done"
  /\ exit = "err"
  /\ error = "download"
  /\ calls[Len(calls)].stage = "download"
  /\ cached # {}
  /\ unpacked = {}
  /\ output = {}

\* C11: a run of List invokes no stage but resolve: download, unpack and
\* pack are never called and the cache, the unpack root and the output tree
\* stay as they were; when the run has ended Ok, one row (filename, target
\* arch, variant) was printed for every payload of the resolved list, in the
\* order of the list.
C11_ListIsReadOnly ==
  cmd = "List" =>
    /\ \A i \in 1..Len(calls) : calls[i].stage = "resolve"
    /\ cached = {}
    /\ unpacked = {}
    /\ output = {}
    /\ (pc = "done" /\ exit = "ok") =>
         /\ Len(printed) = Len(pruned)
         /\ \A i \in 1..Len(pruned) :
              /\ printed[i].name = pruned[i].filename
              /\ printed[i].target =
                   (IF pruned[i].target_arch = "None" THEN <<>>
                    ELSE ArchAsStr(pruned[i].target_arch))
              /\ printed[i].variant =
                   (IF pruned[i].variant = "None" THEN "" ELSE pruned[i].variant)

\* a run of List has printed the rows of a list with payloads of all arches
C11_Witness ==
  /\ cmd = "List"
  /\ pc = "done"
  /\ exit = "ok"
  /\ arches = 15
  /\ Len(printed) > 9
  /\ Len(calls) = 1

\* the variants whose CRT libs are looked up for the variant mask of the run:
\* the Desktop and OneCore bits that are set, and Store always
LookupVariants ==
  {v \in {"Desktop", "OneCore"} : HasBit(variants, VariantBit(v))} \cup {"Store"}

\* the arches of the arch mask of the run
SelectedArches == {a \in {"X86", "X86_64", "Aarch", "Aarch64"} : HasBit(arches, ArchBit(a))}

\* the CRT libs of the variant are looked up in their spectre form
SpectreForm(v) == HasBit(variants, VariantBit("Spectre")) /\ v # "Store"

\* the id 'Microsoft.VC.<version>.CRT.<arch>.<variant>[.spectre].base' of an
\* arch and a variant, as the claim describes it
ExpectedCrtLibId(ver, a, v) ==
  VC_ID_PREFIX \o ver \o CRT_INFIX
    \o (CASE a = "X86" -> TOK_x86
          [] a = "X86_64" -> TOK_x64
          [] a = "Aarch" -> TOK_arm
          [] a = "Aarch64" -> TOK_ARM64)
    \o DOT
    \o (CASE v = "Desktop" -> TOK_Desktop
          [] v = "OneCore" -> TOK_OneCoreDesktop
          [] v = "Store" -> TOK_Store)
    \o (IF SpectreForm(v) THEN SPECTRE_SUFFIX ELSE <<>>)
    \o BASE_SUFFIX

\* C12: for every selected arch, exactly one CRT libs id is looked up per
\* variant of (mask /\ {Desktop, OneCore}) \/ {Store}: Store also when the
\* mask does not hold it, with '.spectre' exactly when the Spectre bit is set
\* and the variant is not Store, with 'ARM64' for aarch64 and x86, x64, arm
\* for the others; the Spectre bit adds no lookup.  On a manifest that ships
\* all of these items the CrtLibs payloads returned are exactly theirs.
C12_CrtLibLookups ==
  (pc # "prune" /\ ~LacksBuildTools /\ ~LacksVcKey) =>
    LET ver == CrtVersion(Pkgs[BUILD_TOOLS_ID])
        ids == CrtLibLookups(ver, arches, variants)
    IN  /\ Len(ids) = Cardinality(SelectedArches) * Cardinality(LookupVariants)
        /\ {ids[i] : i \in 1..Len(ids)} =
             {ExpectedCrtLibId(ver, a, v) : a \in SelectedArches, v \in LookupVariants}
        /\ (ResolvedOk /\ manifest \cap {"x64_store_missing", "arm_onecore_missing"} = {})
             => {pruned[i].url : i \in {j \in 1..Len(pruned) : pruned[j].kind = "CrtLibs"}}
                  = {CrtLibUrl(a, v, SpectreForm(v)) : a \in SelectedArches, v \in LookupVariants}

\* x86_64 and aarch64 were resolved for Desktop with the Spectre bit: four
\* CRT libs payloads, the two Desktop ones in their spectre form
C12_Witness ==
  /\ ResolvedOk
  /\ arches = 10
  /\ variants = 9
  /\ Cardinality({i \in 1..Len(pruned) : pruned[i].kind = "CrtLibs"}) = 4
  /\ \E i \in 1..Len(pruned) : pruned[i].url = CrtLibUrl("Aarch64", "Desktop", TRUE)
  /\ \E i \in 1..Len(pruned) : pruned[i].url = CrtLibUrl("Aarch64", "Store", FALSE)

\* the version tokens of the build tools dependency keys that match
\* 'Microsoft.VisualStudio.Component.VC.<token>.x86.x64'
VersionTokens ==
  {VersionOfKey(k) : k \in {d \in Pkgs[BUILD_TOOLS_ID].dependencies :
                              VersionOfKey(d) # NoneStr}}

\* C13: the CRT version prune_pkg_list uses, the token of the last matching
\* dependency key, is the string-order maximum of the version tokens of all
\* matching keys, also when one token is a prefix of another; the CRT headers
\* returned are those of that version.
C13_VersionIsMaxToken ==
  (pc # "prune" /\ ~LacksBuildTools /\ ~LacksVcKey) =>
    /\ CrtVersion(Pkgs[BUILD_TOOLS_ID]) = StrMax(VersionTokens)
    /\ ResolvedOk => pruned[1].filename = HeaderKey(StrMax(VersionTokens)) \o VSIX

\* the positions of the returned list that hold a payload of the kind and
\* target arch
At(kind, target_arch) ==
  {i \in 1..Len(pruned) : pruned[i].kind = kind /\ pruned[i].target_arch = target_arch}

\* the installer token of an arch in the file names of the SDK item
SdkToken(a) ==
  CASE a = "X86" -> "x86"
    [] a = "X86_64" -> "x64"
    [] a = "Aarch" -> "arm"
    [] a = "Aarch64" -> "arm64"

\* the SDK part of a returned list: the generic and the store headers, the
\* desktop headers of every selected arch but x86, the desktop libs of every
\* selected arch, one store libs payload and one Ucrt payload, all taken
\* from the latest SDK item (and the UCRT item), and nothing else
SdkPartOnSuccess ==
  ResolvedOk =>
    /\ Cardinality(At("SdkHeaders", "None")) = 2
    /\ \E i, j \in At("SdkHeaders", "None") :
         /\ pruned[i].url = <<GoldenSdk, "headers", "x86">>
         /\ pruned[j].url = <<GoldenSdk, "store-headers", "">>
    /\ \A a \in {"X86", "X86_64", "Aarch", "Aarch64"} :
         /\ Cardinality(At("SdkHeaders", a)) =
              (IF a \in SelectedArches \ {"X86"} THEN 1 ELSE 0)
         /\ Cardinality(At("SdkLibs", a)) = (IF a \in SelectedArches THEN 1 ELSE 0)
         /\ \A i \in At("SdkHeaders", a) : pruned[i].url = <<GoldenSdk, "headers", SdkToken(a)>>
         /\ \A i \in At("SdkLibs", a) : pruned[i].url = <<GoldenSdk, "libs", SdkToken(a)>>
    /\ At("SdkLibs", "None") = {}
    /\ Cardinality(At("SdkStoreLibs", "None")) = 1
    /\ Cardinality(At("Ucrt", "None")) = 1
    /\ \A i \in 1..Len(pruned) :
         pruned[i].kind \in {"SdkStoreLibs", "Ucrt"} => pruned[i].target_arch = "None"

\* an installer that get_sdk pushes for the arch mask of the run is not in
\* the latest SDK item, or the UCRT item or its installer is not there
SdkPayloadMissing ==
  /\ ~LacksSdk
  /\ LET sdk == LatestSdkId(Pkgs)
     IN  \/ ~HasFile(sdk, INSTALLERS \o SDK_HEADERS_X86)
         \/ ~HasFile(sdk, INSTALLERS \o SDK_STORE_HEADERS)
         \/ \E a \in SelectedArches \ {"X86"} :
              ~HasFile(sdk, SDK_HEADERS_PREFIX \o ArchAsMsStr(a) \o SDK_MSI_SUFFIX)
         \/ \E a \in SelectedArches :
              ~HasFile(sdk, SDK_LIBS_PREFIX \o ArchAsMsStr(a) \o SDK_MSI_SUFFIX)
         \/ ~HasFile(sdk, INSTALLERS \o SDK_STORE_LIBS)
         \/ UCRT_ID \notin DOMAIN Pkgs
         \/ ~HasFile(UCRT_ID, UCRT_MSI)

\* a missing SDK or UCRT payload is an error, never a shorter list
SdkMissingIsError ==
  (pc # "prune" /\ SdkPayloadMissing) => (exit = "err" /\ pruned = <<>>)

\* C14: on success the SDK part of the result is the generic and the store
\* headers (no target arch), one desktop-headers payload per selected arch
\* other than x86, one desktop-libs payload per selected arch, exactly one
\* store-apps libs payload and exactly one Ucrt payload; if one of these is
\* missing from the latest SDK item or the UCRT item, prune_pkg_list returns
\* an error instead of a shorter list.
C14_SdkPart == SdkPartOnSuccess /\ SdkMissingIsError
====
